---- MODULE Spec2Model ----
(***************************************************************************)
(* Model of google_sheets_connector.js: the sheet fetcher, the one-hour    *)
(* localStorage cache, the page orchestrator (initializeDynamicContent)    *)
(* and the three renderers (populateBooks, populateTalks, populateNews)    *)
(* with their show-all / collapse click handlers.                          *)
(*                                                                         *)
(* JavaScript strings are TLA+ strings, read as sequences of characters    *)
(* (Len, \o, SubSeq).  A field of a record that the sheet does not supply  *)
(* is absent from the record's DOMAIN and reads as undefined.              *)
(***************************************************************************)
EXTENDS Integers, Sequences, FiniteSets, TLC

(***************************************************************************)
(* Strings                                                                 *)
(***************************************************************************)

\* The value of a missing property; a template literal prints it as text.
undefined == "@undefined@"

\* JavaScript truthiness of a string-or-undefined value.
Truthy(v) == v # undefined /\ v # ""

\* v || d
OrElse(v, d) == IF Truthy(v) THEN v ELSE d

\* `${v}` inside a template literal.
Interp(v) == IF v = undefined THEN "undefined" ELSE v

\* rec.f
Get(rec, f) == IF f \in DOMAIN rec THEN rec[f] ELSE undefined

CharAt(s, i) == SubSeq(s, i, i)

StartsWithAt(s, sub, p) ==
    /\ p >= 1
    /\ p + Len(sub) - 1 <= Len(s)
    /\ SubSeq(s, p, p + Len(sub) - 1) = sub

\* s.indexOf(sub) + 1, or 0 when sub does not occur.
IndexOf(s, sub) ==
    LET hits == {p \in 1..Len(s) : StartsWithAt(s, sub, p)}
    IN  IF hits = {} THEN 0 ELSE CHOOSE p \in hits : \A q \in hits : p <= q

\* s.includes(sub)
Includes(s, sub) == IndexOf(s, sub) # 0

\* s.replace(sub, rep) with a string pattern: the first occurrence only.
ReplaceFirst(s, sub, rep) ==
    LET p == IndexOf(s, sub)
    IN  IF p = 0 THEN s
        ELSE SubSeq(s, 1, p - 1) \o rep \o SubSeq(s, p + Len(sub), Len(s))

\* s.replace(/c/g, rep) for a one-character pattern c.
RECURSIVE ReplaceAll(_, _, _)
ReplaceAll(s, c, rep) ==
    IF Len(s) = 0 THEN ""
    ELSE (IF CharAt(s, 1) = c THEN rep ELSE CharAt(s, 1))
         \o ReplaceAll(SubSeq(s, 2, Len(s)), c, rep)

Upper == "ABCDEFGHIJKLMNOPQRSTUVWXYZ"
Lower == "abcdefghijklmnopqrstuvwxyz"
Digits == "0123456789"

\* s.toLowerCase()
RECURSIVE ToLowerCase(_)
ToLowerCase(s) ==
    IF Len(s) = 0 THEN ""
    ELSE LET c == CharAt(s, 1)
             p == IndexOf(Upper, c)
         IN  (IF p = 0 THEN c ELSE CharAt(Lower, p))
             \o ToLowerCase(SubSeq(s, 2, Len(s)))

\* The decimal text of a small natural number.
RECURSIVE NumText(_)
NumText(n) ==
    IF n < 10 THEN CharAt(Digits, n + 1)
    ELSE NumText(n \div 10) \o CharAt(Digits, (n % 10) + 1)

\* Characters encodeURIComponent leaves alone.
UriUnreserved == Upper \o Lower \o Digits \o "-_.!~*'()"

\* The percent escapes of the other ASCII characters the sheets use.
UriEscape(c) ==
    CASE c = " "  -> "%20"
      [] c = "\"" -> "%22"
      [] c = "#"  -> "%23"
      [] c = "&"  -> "%26"
      [] c = "/"  -> "%2F"
      [] c = ":"  -> "%3A"
      [] c = "<"  -> "%3C"
      [] c = "="  -> "%3D"
      [] c = ">"  -> "%3E"
      [] c = "?"  -> "%3F"
      [] c = "\\" -> "%5C"
      [] c = "|"  -> "%7C"
      [] OTHER    -> "%3F"

RECURSIVE encodeURIComponent(_)
encodeURIComponent(s) ==
    IF Len(s) = 0 THEN ""
    ELSE LET c == CharAt(s, 1)
         IN  (IF Includes(UriUnreserved, c) THEN c ELSE UriEscape(c))
             \o encodeURIComponent(SubSeq(s, 2, Len(s)))

(***************************************************************************)
(* Pure helpers of the script                                              *)
(***************************************************************************)

transformCloudinaryUrl(url, transformation) ==
    IF ~Truthy(url) \/ ~Includes(url, "/upload/") THEN url
    ELSE ReplaceFirst(url, "/upload/", transformation)

\* The five replacements, in the order the code chains them.
escapeHTML(str) ==
    IF ~Truthy(str) THEN ""
    ELSE ReplaceAll(
           ReplaceAll(
             ReplaceAll(
               ReplaceAll(
                 ReplaceAll(str, "&", "&amp;"),
                 "<", "&lt;"),
               ">", "&gt;"),
             "\"", "&quot;"),
           "'", "&#039;")

\* \w of the regular expression.
WordChars == Upper \o Lower \o Digits \o "_"

\* The length of the alternative of group 1 that matches at position p of
\* url, or 0: youtu.be\/ | v\/ | u\/\w\/ | embed\/ | watch\?v= | \&v=
\* (the dot of youtu.be is unescaped and matches any character).
MarkerLenAt(url, p) ==
    IF /\ StartsWithAt(url, "youtu", p)
       /\ p + 5 <= Len(url)
       /\ StartsWithAt(url, "be/", p + 6)
    THEN 9
    ELSE IF StartsWithAt(url, "v/", p) THEN 2
    ELSE IF /\ StartsWithAt(url, "u/", p)
            /\ p + 3 <= Len(url)
            /\ Includes(WordChars, CharAt(url, p + 2))
            /\ CharAt(url, p + 3) = "/"
    THEN 4
    ELSE IF StartsWithAt(url, "embed/", p) THEN 6
    ELSE IF StartsWithAt(url, "watch?v=", p) THEN 8
    ELSE IF StartsWithAt(url, "&v=", p) THEN 3
    ELSE 0

\* ([^#\&\?]*) : the longest run without # & ? that starts at position p.
RECURSIVE IdRun(_, _)
IdRun(url, p) ==
    IF p > Len(url) \/ CharAt(url, p) \in {"#", "&", "?"} THEN ""
    ELSE CharAt(url, p) \o IdRun(url, p + 1)

\* null is the empty string here: no identifier of 11 characters is empty.
getYoutubeVideoId(url) ==
    IF ~Truthy(url) THEN ""
    ELSE LET hits == {p \in 1..Len(url) : MarkerLenAt(url, p) > 0}
         IN  IF hits = {} THEN ""
             ELSE LET p  == CHOOSE q \in hits : \A r \in hits : r <= q
                      id == IdRun(url, p + MarkerLenAt(url, p))
                  IN  IF Len(id) = 11 THEN id ELSE ""

(***************************************************************************)
(* The published sheets.  Row(i) of version v of a sheet; the rows cycle   *)
(* through three shapes so that every branch of the renderers is taken.    *)
(* Sheet text carries the characters & < > " ' .                           *)
(***************************************************************************)

Langs == {"en", "es"}

(***************************************************************************)
(* Bounds of the model                                                     *)
(***************************************************************************)

\* Clock ticks the model lets pass; a tick is half the freshness window.
MaxTicks == 2

\* Rows of the longer version of each sheet (the shorter one has two).
MaxRows == 4

\* Renderer calls and clicks from outside initializeDynamicContent, per page.
MaxCalls == 2


Stamp(v, i) == "v" \o NumText(v) \o "r" \o NumText(i)

Book(v, i) ==
    CASE i % 3 = 1 ->
           [category |-> "Fiction",
            title_en |-> "Dragons & <Elves> " \o Stamp(v, i),
            title_es |-> "Dragones & <Elfos> " \o Stamp(v, i),
            edition_en |-> "2nd \"revised\" edition",
            edition_es |-> "2a edicion",
            purchaseLink_en |-> "https://shop.example/?a=1&b=2",
            imgSrc_en |-> "https://res.example/image/upload/v1/c\"o.png",
            imgSrc_es |-> "https://res.example/image/v1/es.png",
            description_en |-> "A <b>bold</b> tale",
            description_es |-> "Un relato",
            availableLangs |-> "en,es",
            year |-> "2019"]
      [] i % 3 = 2 ->
           [category |-> "essays",
            title_en |-> "O'Brien's essays on fantasy " \o Stamp(v, i),
            title_es |-> "Ensayos " \o Stamp(v, i),
            description_en |-> "Essays",
            year |-> "2021"]
      [] OTHER ->
           [category |-> "poetry",
            title_en |-> "Verses " \o Stamp(v, i),
            title_es |-> "Versos " \o Stamp(v, i)]

Talk(v, i) ==
    CASE i % 3 = 1 ->
           [title_en |-> "Myth & <Lore> " \o Stamp(v, i),
            title_es |-> "Mito & <Saber> " \o Stamp(v, i),
            description_en |-> "On \"sub-creation\"",
            description_es |-> "Sobre la subcreacion",
            linkText_en |-> "Watch",
            linkText_es |-> "Ver",
            date_en |-> "May 2020",
            date_es |-> "Mayo 2020",
            congress_en |-> "Mythcon '20",
            congress_es |-> "Mythcon '20",
            youtubeLink |-> "https://youtu.be/dQw4w9WgXcQ",
            link |-> "https://talks.example/?id=1&x=\"y\""]
      [] i % 3 = 2 ->
           [title_en |-> "Landscapes " \o Stamp(v, i),
            title_es |-> "Paisajes " \o Stamp(v, i),
            description_en |-> "Nature",
            description_es |-> "Naturaleza",
            linkText_en |-> "Read",
            linkText_es |-> "Leer",
            date_en |-> "June 2021",
            date_es |-> "Junio 2021",
            youtubeLink |-> "https://youtu.be/short",
            link |-> "https://talks.example/2"]
      [] OTHER ->
           [title_en |-> "Heroes " \o Stamp(v, i),
            title_es |-> "Heroes es " \o Stamp(v, i),
            description_en |-> "Epic",
            description_es |-> "Epica",
            linkText_en |-> "More",
            linkText_es |-> "Mas",
            link |-> "https://talks.example/3"]

NewsPost(v, i) ==
    CASE i % 3 = 1 ->
           [date_en |-> "1 May",
            date_es |-> "1 de mayo",
            title_en |-> "New book <out> & about " \o Stamp(v, i),
            title_es |-> "Nuevo libro " \o Stamp(v, i),
            description_en |-> "It's here",
            description_es |-> "Ya esta aqui",
            imgSrc |-> "https://res.example/n.png"]
      [] i % 3 = 2 ->
           [date_en |-> "2 <June>",
            date_es |-> "2 de junio",
            title_en |-> "Interview " \o Stamp(v, i),
            title_es |-> "Entrevista " \o Stamp(v, i)]
      [] OTHER ->
           [date_en |-> "3 July",
            date_es |-> "3 de julio",
            title_en |-> "Award " \o Stamp(v, i),
            title_es |-> "Premio " \o Stamp(v, i),
            description_en |-> "An award"]

\* The rows the CSV decoder returns for version v of a sheet.
SheetVersions == {1, 2}
RowCount(v) == IF v = 1 THEN 2 ELSE MaxRows
Row(sheet, v, i) ==
    IF sheet = "books" THEN Book(v, i)
    ELSE IF sheet = "talks" THEN Talk(v, i)
    ELSE NewsPost(v, i)
SheetRows(sheet, v) == [i \in 1..RowCount(v) |-> Row(sheet, v, i)]

AllRows(sheet) == {Row(sheet, v, i) : v \in SheetVersions, i \in 1..MaxRows}

(***************************************************************************)
(* The renderers.  The markup of an item is its template with the values   *)
(* interpolated into it: an item is the record of those values, one field  *)
(* per ${...} of the template, and a container's innerHTML is the sequence *)
(* of its items.                                                           *)
(***************************************************************************)

CategoryKeys == {"fiction", "essays", "anthologies", "translations"}

\* font size of the typographic cover
fontSize(title) ==
    IF Len(title) > 55 THEN 22
    ELSE IF Len(title) > 25 THEN 28
    ELSE 32

\* thumbnailSrc of a book
thumbnailSrc(originalImgSrc, title) ==
    IF Truthy(originalImgSrc)
    THEN transformCloudinaryUrl(originalImgSrc, "/upload/w_200,h_300,c_pad,b_auto/")
    ELSE "https://res.cloudinary.com/dzef5s7pq/image/upload/w_200,h_300,c_fill/l_text:Arial_"
         \o NumText(fontSize(title)) \o "_bold:"
         \o encodeURIComponent(ReplaceAll(title, "'", "\\'"))
         \o ",co_rgb:333333,g_center,w_200,c_fit/l_text:Arial_20:Martin%20Simonson,co_rgb:333333,g_south,y_40/default_bg_kxcmab.png"

\* The markup appended for one book.
renderBook(book, lang) ==
    LET title == OrElse(IF lang = "es" THEN Get(book, "title_es")
                        ELSE Get(book, "title_en"), "Untitled")
        edition == OrElse(IF lang = "es" THEN Get(book, "edition_es")
                          ELSE Get(book, "edition_en"), "")
        purchaseLink == OrElse(IF lang = "es" THEN Get(book, "purchaseLink_es")
                               ELSE Get(book, "purchaseLink_en"), "#")
        originalImgSrc == OrElse(IF lang = "es" THEN Get(book, "imgSrc_es")
                                 ELSE Get(book, "imgSrc_en"), "")
        thumb == thumbnailSrc(originalImgSrc, title)
    IN  [tag |-> "book-item",
         dataType |-> Interp(Get(book, "category")),
         dataImgSrc |-> originalImgSrc,
         dataFinalSrc |-> thumb,
         dataTitleEn |-> escapeHTML(Get(book, "title_en")),
         dataTitleEs |-> escapeHTML(Get(book, "title_es")),
         dataDescEn |-> escapeHTML(OrElse(Get(book, "description_en"), "")),
         dataDescEs |-> escapeHTML(OrElse(Get(book, "description_es"), "")),
         dataLink |-> escapeHTML(purchaseLink),
         dataAvailableLangs |-> escapeHTML(Get(book, "availableLangs")),
         dataYear |-> escapeHTML(Get(book, "year")),
         imgSrc |-> thumb,
         imgAlt |-> escapeHTML(title),
         h3 |-> escapeHTML(title),
         p |-> escapeHTML(edition)]

\* The markup of every book the sheet holds, tabulated once.
bookMarkup ==
    [a \in AllRows("books") \X Langs |-> renderBook(a[1], a[2])] @@ <<>>

\* categoryKey of a book
categoryKey(book) ==
    IF Truthy(Get(book, "category")) THEN ToLowerCase(book.category) ELSE ""

\* The category key of every book the sheet holds, tabulated once.
bookCategoryKey == [b \in AllRows("books") |-> categoryKey(b)] @@ <<>>

\* fetchedBooksData.forEach(...): the grids after the books from index i on.
RECURSIVE AppendBooks(_, _, _, _)
AppendBooks(grids, data, lang, i) ==
    IF i > Len(data) THEN grids
    ELSE LET key == bookCategoryKey[data[i]]
         IN  IF key \in CategoryKeys /\ grids[key].present
             THEN AppendBooks(
                    [grids EXCEPT ![key].innerHTML =
                        Append(@, bookMarkup[<<data[i], lang>>])],
                    data, lang, i + 1)
             ELSE AppendBooks(grids, data, lang, i + 1)

populateBooks(dom, data, lang) ==
    IF Len(data) = 0 THEN dom
    ELSE LET cleared == [k \in CategoryKeys |->
                            IF dom.books[k].present
                            THEN [dom.books[k] EXCEPT !.innerHTML = <<>>]
                            ELSE dom.books[k]]
         IN  [dom EXCEPT !.books = AppendBooks(cleared, data, lang, 1)]

\* renderTalk of populateTalks: the markup of one talk.
renderTalk(talk, lang) ==
    LET title == IF lang = "es" THEN Get(talk, "title_es") ELSE Get(talk, "title_en")
        description == IF lang = "es" THEN Get(talk, "description_es")
                       ELSE Get(talk, "description_en")
        linkText == IF lang = "es" THEN Get(talk, "linkText_es")
                    ELSE Get(talk, "linkText_en")
        date == OrElse(IF lang = "es" THEN Get(talk, "date_es")
                       ELSE Get(talk, "date_en"), "")
        congress == OrElse(IF lang = "es" THEN Get(talk, "congress_es")
                           ELSE Get(talk, "congress_en"), "")
        videoId == getYoutubeVideoId(Get(talk, "youtubeLink"))
        metaInfo == (IF Truthy(date) THEN date ELSE "")
                    \o (IF Truthy(date) /\ Truthy(congress) THEN " | " ELSE "")
                    \o (IF Truthy(congress) THEN congress ELSE "")
        text == [h3 |-> Interp(title),
                 meta |-> metaInfo,
                 p |-> Interp(description),
                 href |-> Interp(Get(talk, "link")),
                 a |-> Interp(linkText)]
    IN  IF Truthy(videoId)
        THEN [tag |-> "talk-video",
              iframeSrc |-> videoId,
              iframeTitle |-> escapeHTML(title),
              text |-> text]
        ELSE [tag |-> "talk-text", text |-> text]

\* renderNews of populateNews: the markup of one post.  The Spanish label
\* is the source's literal, whose accented letter is written ? here.
renderNews(post, lang) ==
    LET date == IF lang = "es" THEN Get(post, "date_es") ELSE Get(post, "date_en")
        title == IF lang = "es" THEN Get(post, "title_es") ELSE Get(post, "title_en")
    IN  [tag |-> "news-item",
         h3 |-> Interp(title),
         date |-> Interp(date),
         dataTitleEn |-> escapeHTML(Get(post, "title_en")),
         dataTitleEs |-> escapeHTML(Get(post, "title_es")),
         dataDateEn |-> escapeHTML(Get(post, "date_en")),
         dataDateEs |-> escapeHTML(Get(post, "date_es")),
         dataImgSrc |-> escapeHTML(OrElse(Get(post, "imgSrc"), "")),
         dataDescriptionEn |-> escapeHTML(OrElse(Get(post, "description_en"), "")),
         dataDescriptionEs |-> escapeHTML(OrElse(Get(post, "description_es"), "")),
         a |-> IF lang = "es" THEN "Leer M?s &rarr;" ELSE "Read More &rarr;"]

\* The markup of every talk and post the sheets hold, tabulated once.
talkMarkup ==
    [a \in AllRows("talks") \X Langs |-> renderTalk(a[1], a[2])] @@ <<>>
newsMarkup ==
    [a \in AllRows("news") \X Langs |-> renderNews(a[1], a[2])] @@ <<>>

initialItemsToShow == 3

\* A selection that never slices.
itemsToRender_all(data, showAll) == data

\* showAll ? data : data.slice(0, initialItemsToShow)
itemsToRender(data, showAll) ==
    IF showAll \/ Len(data) <= initialItemsToShow THEN data
    ELSE SubSeq(data, 1, initialItemsToShow)

\* A populate that does not clear the container first.
talksPopulate_append(dom, data, lang, showAll) ==
    LET items == itemsToRender(data, showAll)
    IN  [dom EXCEPT
           !.talks.innerHTML =
               @ \o [i \in 1..Len(items) |-> talkMarkup[<<items[i], lang>>]],
           !.showAllTalks.disabled = showAll,
           !.collapseAllTalks.disabled = ~showAll,
           !.showAllTalks.faded = showAll,
           !.collapseAllTalks.faded = ~showAll]

\* populate of populateTalks, closed over lang.
talksPopulate(dom, data, lang, showAll) ==
    LET items == itemsToRender(data, showAll)
    IN  [dom EXCEPT
           !.talks.innerHTML = [i \in 1..Len(items) |-> talkMarkup[<<items[i], lang>>]],
           !.showAllTalks.disabled = showAll,
           !.collapseAllTalks.disabled = ~showAll,
           !.showAllTalks.faded = showAll,
           !.collapseAllTalks.faded = ~showAll]

\* populate of populateNews, closed over lang.
newsPopulate(dom, data, lang, showAll) ==
    LET items == itemsToRender(data, showAll)
    IN  [dom EXCEPT
           !.news.innerHTML = [i \in 1..Len(items) |-> newsMarkup[<<items[i], lang>>]]]

\* A click listener is the closure () => populate(showAll) of one renderer
\* invocation: it holds that invocation's lang.
Listener(list, lang, showAll) == [list |-> list, lang |-> lang, showAll |-> showAll]

populateTalks(dom, data, lang) ==
    IF ~dom.talks.present \/ Len(data) = 0 THEN dom
    ELSE LET labelled ==
                 [dom EXCEPT
                    !.showAllTalks.textContent =
                        IF lang = "es" THEN "Mostrar todas las charlas"
                        ELSE "Show all talks",
                    !.collapseAllTalks.textContent =
                        IF lang = "es" THEN "Ocultar charlas" ELSE "Collapse talks"]
             shown == talksPopulate(labelled, data, lang, FALSE)
         IN  IF ~shown.showAllTalks.listenerAttached
             THEN [shown EXCEPT
                     !.showAllTalks.listeners =
                         Append(@, Listener("talks", lang, TRUE)),
                     !.collapseAllTalks.listeners =
                         Append(@, Listener("talks", lang, FALSE)),
                     !.showAllTalks.listenerAttached = TRUE]
             ELSE shown

populateNews(dom, data, lang) ==
    IF ~dom.news.present \/ Len(data) = 0 THEN dom
    ELSE LET labelled ==
                 [dom EXCEPT
                    !.showAllNews.textContent =
                        IF lang = "es" THEN "Mostrar todas las noticias"
                        ELSE "Show all news",
                    !.collapseAllNews.textContent =
                        IF lang = "es" THEN "Ocultar noticias" ELSE "Collapse news"]
             shown == newsPopulate(labelled, data, lang, FALSE)
         IN  [shown EXCEPT
                !.showAllNews.listeners = Append(@, Listener("news", lang, TRUE)),
                !.collapseAllNews.listeners = Append(@, Listener("news", lang, FALSE))]

\* One listener runs: its populate reads the page's current data.
RunListener(dom, talksData, newsData, l) ==
    IF l.list = "talks" THEN talksPopulate(dom, talksData, l.lang, l.showAll)
    ELSE newsPopulate(dom, newsData, l.lang, l.showAll)

\* A click event: the button's listeners run in the order they were added.
RECURSIVE Dispatch(_, _, _, _, _)
Dispatch(dom, talksData, newsData, listeners, i) ==
    IF i > Len(listeners) THEN dom
    ELSE Dispatch(RunListener(dom, talksData, newsData, listeners[i]),
                  talksData, newsData, listeners, i + 1)

(***************************************************************************)
(* The host page.  Its markup is not part of the script: the containers    *)
(* may hold markup of their own before the script runs, and a container    *)
(* may be missing.  The four buttons exist whenever the script runs.       *)
(***************************************************************************)

StaticItem == [tag |-> "static"]

Container(present, innerHTML) == [present |-> present, innerHTML |-> innerHTML]

HostDom(static, missing) ==
    LET c == Container(TRUE, IF static THEN <<StaticItem>> ELSE <<>>)
        gone == Container(FALSE, <<>>)
    IN  [books |-> [k \in CategoryKeys |->
                       IF missing /\ k = "translations" THEN gone ELSE c],
         talks |-> c,
         news |-> IF missing THEN gone ELSE c,
         showAllTalks |-> [textContent |-> "", disabled |-> FALSE, faded |-> FALSE,
                           listenerAttached |-> FALSE, listeners |-> <<>>],
         collapseAllTalks |-> [textContent |-> "", disabled |-> FALSE,
                               faded |-> FALSE, listeners |-> <<>>],
         showAllNews |-> [textContent |-> "", listeners |-> <<>>],
         collapseAllNews |-> [textContent |-> "", listeners |-> <<>>]]

HostPages == {HostDom(FALSE, FALSE), HostDom(TRUE, FALSE), HostDom(TRUE, TRUE)}

(***************************************************************************)
(* Configuration, storage and the network                                  *)
(***************************************************************************)

Sheets == {"books", "talks", "news"}

googleSheetUrls ==
    [books |-> "https://docs.google.com/spreadsheets/d/e/2PACX-1vRQkpUHKd8MwQjurfSPkNia6Xfk-ydErSFgAPSiT-OzL59KYAbBxkgZdo-mSJKWtf3rulpf3037aLZD/pub?gid=0&single=true&output=csv",
     talks |-> "https://docs.google.com/spreadsheets/d/e/2PACX-1vRQkpUHKd8MwQjurfSPkNia6Xfk-ydErSFgAPSiT-OzL59KYAbBxkgZdo-mSJKWtf3rulpf3037aLZD/pub?gid=692236683&single=true&output=csv",
     news |-> "https://docs.google.com/spreadsheets/d/e/2PACX-1vRQkpUHKd8MwQjurfSPkNia6Xfk-ydErSFgAPSiT-OzL59KYAbBxkgZdo-mSJKWtf3rulpf3037aLZD/pub?gid=195482197&single=true&output=csv"]

\* The storage key getOrFetchData is called with for each sheet.
cacheKey(sheet) == sheet \o "Cache"

CacheKeys == {cacheKey(s) : s \in Sheets}

StorageKeys == CacheKeys \cup {"language"}

cacheDuration == 3600 * 1000

TickMs == cacheDuration \div 2

\* What localStorage.getItem returns: null, or the stored text.  A text is
\* either the JSON of a value or something JSON.parse throws on.
NoItem == [kind |-> "null"]
RawText(t) == [kind |-> "text", text |-> t]
JSONstringify(v) == [kind |-> "json", value |-> v]
JSONparse(item) ==
    IF item.kind = "json" THEN [ok |-> TRUE, value |-> item.value]
    ELSE [ok |-> FALSE]

\* What the network does to the request of fetch(url).
ResponseEvents == {"networkError", "notOk", "ok"}

\* What response.text() and Papa.parse do for a sheet.
TextEvents(sheet) ==
    {[text |-> "reject", parse |-> "ok", data |-> <<>>],
     [text |-> "ok", parse |-> "throw", data |-> <<>>]}
    \cup {[text |-> "ok", parse |-> "ok", data |-> SheetRows(sheet, v)] :
             v \in SheetVersions}

(***************************************************************************)
(* fetchDataFromSheet, one operator per stretch of code between awaits.    *)
(* A frame is the state of one call: where it is, what it returned, how    *)
(* many network requests it issued.                                        *)
(***************************************************************************)

\* A catch block that lets the error through.
fetchCatch_rethrow(frame) == [frame EXCEPT !.pc = "raised"]

\* The catch block: log and return [].
fetchCatch(frame) == [frame EXCEPT !.pc = "returned", !.result = <<>>]

\* From the call to the first await.
fetchCall(url) ==
    IF ~Truthy(url)
    THEN [pc |-> "returned", result |-> <<>>, requests |-> 0]
    ELSE [pc |-> "awaitFetch", result |-> <<>>, requests |-> 1]

\* await fetch(url) settles.
fetchOnResponse(frame, ev) ==
    IF ev = "ok" THEN [frame EXCEPT !.pc = "awaitText"]
    ELSE fetchCatch(frame)

\* await response.text() settles, then Papa.parse runs.
fetchOnText(frame, ev) ==
    IF ev.text = "ok" /\ ev.parse = "ok"
    THEN [frame EXCEPT !.pc = "returned", !.result = ev.data]
    ELSE fetchCatch(frame)

(***************************************************************************)
(* getOrFetchData                                                          *)
(***************************************************************************)

Idle == [pc |-> "idle", result |-> <<>>, requests |-> 0]

\* The freshness test with the comparison turned around.
isFresh_inverted(value, nowv) ==
    /\ "timestamp" \in DOMAIN value
    /\ nowv - value.timestamp >= cacheDuration

\* Date.now() - timestamp < cacheDuration; NaN when the timestamp is missing.
isFresh(value, nowv) ==
    /\ "timestamp" \in DOMAIN value
    /\ nowv - value.timestamp < cacheDuration

\* From the call to the first await (or to the return of a cache hit).
getOrFetchCall(item, nowv, url) ==
    IF item # NoItem
    THEN LET parsed == JSONparse(item)
         IN  IF ~parsed.ok
             THEN [pc |-> "rejected", result |-> <<>>, requests |-> 0]
             ELSE IF isFresh(parsed.value, nowv)
             THEN [pc |-> "fulfilled", result |-> parsed.value.data, requests |-> 0]
             ELSE fetchCall(url)
    ELSE fetchCall(url)

\* A save that keeps failures out of the cache.
cacheWrite_skipEmpty(store, key, nowv, data) ==
    IF data = <<>> THEN store
    ELSE [store EXCEPT ![key] = JSONstringify([timestamp |-> nowv, data |-> data])]

\* A save that adds the new rows to the rows already stored.
cacheWrite_merge(store, key, nowv, data) ==
    LET old == IF store[key].kind = "json" /\ "data" \in DOMAIN store[key].value
               THEN store[key].value.data ELSE <<>>
    IN  [store EXCEPT ![key] =
            JSONstringify([timestamp |-> nowv, data |-> old \o data])]

\* localStorage.setItem(key, JSON.stringify({ timestamp: Date.now(), data }))
cacheWrite(store, key, nowv, data) ==
    [store EXCEPT ![key] = JSONstringify([timestamp |-> nowv, data |-> data])]

\* After await fetchDataFromSheet(url): save, then return data.
getOrFetchReturn(frame) == [frame EXCEPT !.pc = "fulfilled"]

(***************************************************************************)
(* State                                                                   *)
(***************************************************************************)

Tabs == {"tabA", "tabB"}

VARIABLES
    localStorage,       \* shared by the tabs: key -> stored item
    now,                \* Date.now()
    hostPage,           \* the DOM of the page as served
    pagePc,             \* per tab: where initializeDynamicContent is
    ops,                \* per tab and sheet: the frame of getOrFetchData
    fetchedBooksData,   \* per tab: the three module-level data holders
    fetchedTalksData,
    fetchedNewsData,
    dom,                \* per tab: containers, buttons and their listeners
    trace,              \* per tab, history: renderer calls and clicks seen
    lastEmptyWrite,     \* per cache key, history: time an empty result was saved
    probe               \* a call of fetchDataFromSheet on its own

vars == <<localStorage, now, hostPage, pagePc, ops, fetchedBooksData,
          fetchedTalksData, fetchedNewsData, dom, trace, lastEmptyWrite, probe>>

pageVars == <<pagePc, ops, fetchedBooksData, fetchedTalksData, fetchedNewsData,
              dom, trace>>

NoTrace == [populateBooks |-> "none", populateTalks |-> "none",
            populateNews |-> "none", talksLast |-> "none", newsLast |-> "none",
            calls |-> 0]

NoProbe == [url |-> "", sheet |-> "books", response |-> "ok",
            text |-> [text |-> "ok", parse |-> "ok", data |-> <<>>],
            pc |-> "off", result |-> <<>>, requests |-> 0]

\* The pages before DOMContentLoaded, in a browser whose clock reads t0 and
\* whose pages are served as host.
InitPages(t0, host) ==
    /\ now = t0
    /\ hostPage = host
    /\ pagePc = [t \in Tabs |-> "unopened"]
    /\ ops = [t \in Tabs |-> [s \in Sheets |-> Idle]]
    /\ fetchedBooksData = [t \in Tabs |-> <<>>]
    /\ fetchedTalksData = [t \in Tabs |-> <<>>]
    /\ fetchedNewsData = [t \in Tabs |-> <<>>]
    /\ dom = [t \in Tabs |-> host]
    /\ trace = [t \in Tabs |-> NoTrace]
    /\ lastEmptyWrite = [k \in CacheKeys |-> -1]

\* The language key is written by the site's language switch, not by this
\* script.
LanguageItems == {NoItem, RawText("es")}

\* A store with the language item l and the cache entry entryOf[s] per sheet.
Store(l, entryOf) ==
    [k \in StorageKeys |->
        IF k = "language" THEN l
        ELSE entryOf[CHOOSE s \in Sheets : cacheKey(s) = k]]

\* A browser that has not run the script yet: no cache entry.
Init ==
    /\ InitPages(0, HostDom(FALSE, FALSE))
    /\ \E l \in LanguageItems : localStorage = Store(l, [s \in Sheets |-> NoItem])
    /\ probe = NoProbe

(***************************************************************************)
(* initializeDynamicContent                                                *)
(***************************************************************************)

\* localStorage.getItem('language') || 'en'
currentLang(store) ==
    IF store["language"] = NoItem \/ store["language"].text = "" THEN "en"
    ELSE store["language"].text

\* The code after await Promise.all: the three renderers in order.
renderAll(d, books, talks, news, lang) ==
    populateNews(populateTalks(populateBooks(d, books, lang), talks, lang), news, lang)

\* A join that is satisfied by the first frame to be fulfilled.
promiseAll_any(frames) ==
    IF \E s \in Sheets : frames[s].pc = "rejected" THEN "rejected"
    ELSE IF \E s \in Sheets : frames[s].pc = "fulfilled" THEN "fulfilled"
    ELSE "pending"

\* Promise.all over the three frames: rejected as soon as one is rejected,
\* fulfilled when all three are fulfilled.
promiseAll(frames) ==
    IF \E s \in Sheets : frames[s].pc = "rejected" THEN "rejected"
    ELSE IF \A s \in Sheets : frames[s].pc = "fulfilled" THEN "fulfilled"
    ELSE "pending"

\* The rest of the turn of tab t once its frames are `frames` and storage is
\* `store`: the continuation of initializeDynamicContent runs in the same
\* turn when Promise.all has settled.
Join(t, frames, store) ==
    /\ ops' = [ops EXCEPT ![t] = frames]
    /\ localStorage' = store
    /\ IF pagePc[t] # "awaiting" /\ pagePc[t] # "unopened"
       THEN UNCHANGED <<pagePc, fetchedBooksData, fetchedTalksData,
                        fetchedNewsData, dom, trace>>
       ELSE IF promiseAll(frames) = "rejected"
       THEN /\ pagePc' = [pagePc EXCEPT ![t] = "rejected"]
            /\ UNCHANGED <<fetchedBooksData, fetchedTalksData, fetchedNewsData,
                           dom, trace>>
       ELSE IF promiseAll(frames) = "pending"
       THEN /\ pagePc' = [pagePc EXCEPT ![t] = "awaiting"]
            /\ UNCHANGED <<fetchedBooksData, fetchedTalksData, fetchedNewsData,
                           dom, trace>>
       ELSE LET lang == currentLang(store)
            IN  /\ pagePc' = [pagePc EXCEPT ![t] = "done"]
                /\ fetchedBooksData' =
                       [fetchedBooksData EXCEPT ![t] = frames["books"].result]
                /\ fetchedTalksData' =
                       [fetchedTalksData EXCEPT ![t] = frames["talks"].result]
                /\ fetchedNewsData' =
                       [fetchedNewsData EXCEPT ![t] = frames["news"].result]
                /\ dom' = [dom EXCEPT ![t] =
                              renderAll(@, frames["books"].result,
                                        frames["talks"].result,
                                        frames["news"].result, lang)]
                /\ trace' = [trace EXCEPT ![t].populateBooks = lang,
                                          ![t].populateTalks = lang,
                                          ![t].populateNews = lang,
                                          ![t].talksLast = "populate",
                                          ![t].newsLast = "populate"]

\* The frames of tab t after the frame of sheet s returned from its fetch,
\* and the storage after its setItem.
Settled(frames, s) == [frames EXCEPT ![s] = getOrFetchReturn(@)]

SaveReturned(store, frames, nowv) ==
    [k \in StorageKeys |->
        IF \E s \in Sheets : k = cacheKey(s) /\ frames[s].pc = "returned"
        THEN LET s == CHOOSE s \in Sheets : k = cacheKey(s)
             IN  cacheWrite(store, k, nowv, frames[s].result)[k]
        ELSE store[k]]

ReturnAll(frames) ==
    [s \in Sheets |-> IF frames[s].pc = "returned" THEN getOrFetchReturn(frames[s])
                      ELSE frames[s]]

NoteEmptyWrites(frames) ==
    lastEmptyWrite' =
        [k \in CacheKeys |->
            IF \E s \in Sheets : /\ k = cacheKey(s)
                                 /\ frames[s].pc = "returned"
                                 /\ frames[s].result = <<>>
            THEN now
            ELSE lastEmptyWrite[k]]

\* DOMContentLoaded: initializeDynamicContent runs to its await.  The three
\* calls of getOrFetchData each run to their first await.
DOMContentLoaded(t) ==
    /\ pagePc[t] = "unopened"
    /\ LET called == [s \in Sheets |->
                         getOrFetchCall(localStorage[cacheKey(s)], now,
                                        googleSheetUrls[s])]
       IN  /\ Join(t, ReturnAll(called), SaveReturned(localStorage, called, now))
           /\ NoteEmptyWrites(called)
    /\ UNCHANGED <<now, hostPage, probe>>

\* The request of sheet s in tab t settles.
FetchSettles(t, s) ==
    /\ pagePc[t] # "unopened"
    /\ ops[t][s].pc = "awaitFetch"
    /\ \E ev \in ResponseEvents :
          LET frames == [ops[t] EXCEPT ![s] = fetchOnResponse(@, ev)]
          IN  /\ Join(t, ReturnAll(frames), SaveReturned(localStorage, frames, now))
              /\ NoteEmptyWrites(frames)
    /\ UNCHANGED <<now, hostPage, probe>>

\* The body of the response of sheet s in tab t arrives (or fails).
TextSettles(t, s) ==
    /\ pagePc[t] # "unopened"
    /\ ops[t][s].pc = "awaitText"
    /\ \E ev \in TextEvents(s) :
          LET frames == [ops[t] EXCEPT ![s] = fetchOnText(@, ev)]
          IN  /\ Join(t, ReturnAll(frames), SaveReturned(localStorage, frames, now))
              /\ NoteEmptyWrites(frames)
    /\ UNCHANGED <<now, hostPage, probe>>

\* The page of tab t is loaded anew: its script state and DOM start over.
Reload(t) ==
    /\ pagePc[t] \in {"done", "rejected"}
    /\ pagePc' = [pagePc EXCEPT ![t] = "unopened"]
    /\ ops' = [ops EXCEPT ![t] = [s \in Sheets |-> Idle]]
    /\ fetchedBooksData' = [fetchedBooksData EXCEPT ![t] = <<>>]
    /\ fetchedTalksData' = [fetchedTalksData EXCEPT ![t] = <<>>]
    /\ fetchedNewsData' = [fetchedNewsData EXCEPT ![t] = <<>>]
    /\ dom' = [dom EXCEPT ![t] = hostPage]
    /\ trace' = [trace EXCEPT ![t] = NoTrace]
    /\ UNCHANGED <<localStorage, now, hostPage, lastEmptyWrite, probe>>

\* Time passes.
Tick ==
    /\ now < MaxTicks * TickMs
    /\ now' = now + TickMs
    /\ UNCHANGED <<localStorage, hostPage, pageVars, lastEmptyWrite, probe>>

\* One page load and what follows it in tab t.
PageStep(t) ==
    \/ DOMContentLoaded(t)
    \/ \E s \in Sheets : FetchSettles(t, s)
    \/ \E s \in Sheets : TextSettles(t, s)

\* One tab, reloaded at will, as time passes.
Next ==
    \/ PageStep("tabA")
    \/ Reload("tabA")
    \/ Tick

Spec == Init /\ [][Next]_vars

(***************************************************************************)
(* Two tabs of one browser, loading and reloading at the same moment.      *)
(* The browser has been to the site before: an earlier visit may have left *)
(* entries that are stale or still fresh, with rows or empty.              *)
(***************************************************************************)

EarlierVisits ==
    {[s \in Sheets |-> NoItem]}
    \cup {[s \in Sheets |->
              JSONstringify([timestamp |-> ts,
                             data |-> IF failed THEN <<>> ELSE SheetRows(s, 1)])] :
             ts \in {0, TickMs}, failed \in BOOLEAN}

InitTabs ==
    /\ InitPages(cacheDuration, HostDom(FALSE, FALSE))
    /\ \E e \in EarlierVisits : localStorage = Store(NoItem, e)
    /\ probe = NoProbe

NextTabs ==
    \/ \E t \in Tabs : PageStep(t)
    \/ \E t \in Tabs : Reload(t)

SpecTabs == InitTabs /\ [][NextTabs]_vars

(***************************************************************************)
(* A store that holds, under the cache keys, text the script did not       *)
(* write: not JSON at all, or the JSON of an object without a timestamp.   *)
(***************************************************************************)

ForeignItems == {RawText("not json"), JSONstringify(<<>>)}

InitCorrupt ==
    /\ InitPages(0, HostDom(FALSE, FALSE))
    /\ \E bad \in SUBSET Sheets, item \in ForeignItems :
          /\ bad # {}
          /\ localStorage =
                 Store(NoItem, [s \in Sheets |-> IF s \in bad THEN item ELSE NoItem])
    /\ probe = NoProbe

SpecCorrupt == InitCorrupt /\ [][Next]_vars

(***************************************************************************)
(* fetchDataFromSheet called on its own, for every url and every way the   *)
(* network and the decoder can behave.                                     *)
(***************************************************************************)

InitFetch ==
    /\ InitPages(0, HostDom(FALSE, FALSE))
    /\ localStorage = Store(NoItem, [s \in Sheets |-> NoItem])
    /\ \E s \in Sheets, r \in ResponseEvents :
       \E u \in {"", undefined, googleSheetUrls[s]}, x \in TextEvents(s) :
          probe = [url |-> u, sheet |-> s, response |-> r, text |-> x,
                   pc |-> "start", result |-> <<>>, requests |-> 0]

ProbeFrame == [pc |-> probe.pc, result |-> probe.result, requests |-> probe.requests]

ProbeSet(frame) ==
    probe' = [probe EXCEPT !.pc = frame.pc, !.result = frame.result,
                           !.requests = frame.requests]

ProbeCall ==
    /\ probe.pc = "start"
    /\ ProbeSet(fetchCall(probe.url))
    /\ UNCHANGED <<localStorage, now, hostPage, pageVars, lastEmptyWrite>>

ProbeResponse ==
    /\ probe.pc = "awaitFetch"
    /\ ProbeSet(fetchOnResponse(ProbeFrame, probe.response))
    /\ UNCHANGED <<localStorage, now, hostPage, pageVars, lastEmptyWrite>>

ProbeText ==
    /\ probe.pc = "awaitText"
    /\ ProbeSet(fetchOnText(ProbeFrame, probe.text))
    /\ UNCHANGED <<localStorage, now, hostPage, pageVars, lastEmptyWrite>>

NextFetch == ProbeCall \/ ProbeResponse \/ ProbeText

SpecFetch == InitFetch /\ [][NextFetch]_vars

(***************************************************************************)
(* The renderers and the buttons after the page has loaded.  The renderers *)
(* are global functions: the rest of the site calls them again when the    *)
(* language changes.                                                       *)
(***************************************************************************)

Rendered(t, d, tr) ==
    /\ dom' = [dom EXCEPT ![t] = d]
    /\ trace' = [trace EXCEPT ![t] = tr]
    /\ UNCHANGED <<localStorage, now, hostPage, pagePc, ops, fetchedBooksData,
                   fetchedTalksData, fetchedNewsData, lastEmptyWrite, probe>>

CallPopulateBooks(t, lang) ==
    /\ pagePc[t] # "unopened"
    /\ trace[t].calls < MaxCalls
    /\ Rendered(t, populateBooks(dom[t], fetchedBooksData[t], lang),
                [trace[t] EXCEPT !.populateBooks = lang, !.calls = @ + 1])

CallPopulateTalks(t, lang) ==
    /\ pagePc[t] # "unopened"
    /\ trace[t].calls < MaxCalls
    /\ Rendered(t, populateTalks(dom[t], fetchedTalksData[t], lang),
                [trace[t] EXCEPT !.populateTalks = lang, !.talksLast = "populate",
                                 !.calls = @ + 1])

CallPopulateNews(t, lang) ==
    /\ pagePc[t] # "unopened"
    /\ trace[t].calls < MaxCalls
    /\ Rendered(t, populateNews(dom[t], fetchedNewsData[t], lang),
                [trace[t] EXCEPT !.populateNews = lang, !.newsLast = "populate",
                                 !.calls = @ + 1])

\* A click on a button: a disabled button dispatches nothing.
Click(t, listeners) ==
    Dispatch(dom[t], fetchedTalksData[t], fetchedNewsData[t], listeners, 1)

ClickShowAllTalks(t) ==
    /\ pagePc[t] # "unopened"
    /\ ~dom[t].showAllTalks.disabled
    /\ Rendered(t, Click(t, dom[t].showAllTalks.listeners),
                [trace[t] EXCEPT !.talksLast = "showAll"])

ClickCollapseAllTalks(t) ==
    /\ pagePc[t] # "unopened"
    /\ ~dom[t].collapseAllTalks.disabled
    /\ Rendered(t, Click(t, dom[t].collapseAllTalks.listeners),
                [trace[t] EXCEPT !.talksLast = "collapse"])

ClickShowAllNews(t) ==
    /\ pagePc[t] # "unopened"
    /\ Rendered(t, Click(t, dom[t].showAllNews.listeners),
                [trace[t] EXCEPT !.newsLast = "showAll"])

ClickCollapseAllNews(t) ==
    /\ pagePc[t] # "unopened"
    /\ Rendered(t, Click(t, dom[t].collapseAllNews.listeners),
                [trace[t] EXCEPT !.newsLast = "collapse"])

InitRender ==
    /\ \E host \in HostPages : InitPages(0, host)
    /\ \E l \in LanguageItems : localStorage = Store(l, [s \in Sheets |-> NoItem])
    /\ probe = NoProbe

NextRender ==
    \/ PageStep("tabA")
    \/ \E lang \in Langs : CallPopulateBooks("tabA", lang)
    \/ \E lang \in Langs : CallPopulateTalks("tabA", lang)
    \/ \E lang \in Langs : CallPopulateNews("tabA", lang)
    \/ ClickShowAllTalks("tabA")
    \/ ClickCollapseAllTalks("tabA")
    \/ ClickShowAllNews("tabA")
    \/ ClickCollapseAllNews("tabA")

SpecRender == InitRender /\ [][NextRender]_vars

(***************************************************************************)
(* Properties                                                              *)
(***************************************************************************)

\* The freshness window the documentation states, in milliseconds.
FreshnessWindowMs == 3600000

\* This step is tab t's DOMContentLoaded: its three calls of getOrFetchData.
Calls(t) == pagePc[t] = "unopened" /\ pagePc'[t] # "unopened"

\* This step is the one in which tab t's fetch of sheet s returns.
Returns(t, s) ==
    /\ ops[t][s].pc \in {"awaitFetch", "awaitText"}
    /\ ops'[t][s].pc = "fulfilled"

\* The store holds a decodable entry for sheet s.
HasEntry(s) ==
    /\ localStorage[cacheKey(s)].kind = "json"
    /\ DOMAIN localStorage[cacheKey(s)].value = {"timestamp", "data"}

Entry(s) == localStorage[cacheKey(s)].value

FreshEntry(s) == HasEntry(s) /\ now - Entry(s).timestamp < FreshnessWindowMs

StaleOrAbsent(s) ==
    \/ localStorage[cacheKey(s)] = NoItem
    \/ HasEntry(s) /\ now - Entry(s).timestamp >= FreshnessWindowMs

Min(a, b) == IF a < b THEN a ELSE b

----------------------------------------------------------------------------
\* C1: a call of getOrFetchData that finds an entry younger than 3600000 ms
\* issues no network request, returns the stored payload and leaves the
\* stored entry as it was.
C1_FreshEntryIsServed ==
    [][\A t \in Tabs, s \in Sheets :
          (Calls(t) /\ FreshEntry(s)) =>
             /\ ops'[t][s].pc = "fulfilled"
             /\ ops'[t][s].requests = 0
             /\ ops'[t][s].result = Entry(s).data
             /\ localStorage'[cacheKey(s)] = localStorage[cacheKey(s)]]_vars

\* A reloaded page was served rows saved earlier, some time after the save.
C1_Witness ==
    \E s \in Sheets :
       /\ HasEntry(s)
       /\ ops["tabA"][s] = [pc |-> "fulfilled", result |-> Entry(s).data,
                            requests |-> 0]
       /\ Entry(s).data # <<>>
       /\ Entry(s).timestamp < now

----------------------------------------------------------------------------
\* The parts of C2 about the call itself: with no entry or a stale one the
\* call issues exactly one request, and when its fetch returns it saves
\* {timestamp: now, data: result}, empty or not, and returns the result.
C2_FetchAndSave(t, s) ==
    /\ (Calls(t) /\ StaleOrAbsent(s)) =>
          \/ ops'[t][s].pc = "awaitFetch" /\ ops'[t][s].requests = 1
    /\ Returns(t, s) =>
          /\ ops'[t][s].requests = 1
          /\ localStorage'[cacheKey(s)] =
                 JSONstringify([timestamp |-> now, data |-> ops'[t][s].result])

\* C2 as amended: ... and a later call inside the hour is served the empty
\* sequence without a request as long as that entry is still the stored one.
C2_EmptyIsCachedWhileStored ==
    [][\A t \in Tabs, s \in Sheets :
          /\ C2_FetchAndSave(t, s)
          /\ (Calls(t) /\ FreshEntry(s) /\ Entry(s).data = <<>>) =>
                /\ ops'[t][s].result = <<>>
                /\ ops'[t][s].pc = "fulfilled"
                /\ ops'[t][s].requests = 0]_vars

\* C2 as stated: ... and every call inside the hour after an empty result was
\* saved is served the empty sequence without a request.
C2_EmptyIsCachedForAnHour ==
    [][\A t \in Tabs, s \in Sheets :
          /\ C2_FetchAndSave(t, s)
          /\ (/\ Calls(t)
              /\ lastEmptyWrite[cacheKey(s)] >= 0
              /\ now - lastEmptyWrite[cacheKey(s)] < FreshnessWindowMs) =>
                /\ ops'[t][s].result = <<>>
                /\ ops'[t][s].pc = "fulfilled"
                /\ ops'[t][s].requests = 0]_vars

\* One tab's fetch failed and saved the empty sequence over a stale entry;
\* the other tab, loading later, was served it without a request.
C2_Witness ==
    \E s \in Sheets, t \in Tabs, u \in Tabs :
       /\ t # u
       /\ ops[t][s] = [pc |-> "fulfilled", result |-> <<>>, requests |-> 1]
       /\ ops[u][s] = [pc |-> "fulfilled", result |-> <<>>, requests |-> 0]
       /\ localStorage[cacheKey(s)] =
              JSONstringify([timestamp |-> now, data |-> <<>>])
       /\ lastEmptyWrite[cacheKey(s)] = now

----------------------------------------------------------------------------
\* C3: fetchDataFromSheet never raises; without a url it returns [] and
\* issues no request; on a network failure, a non-ok status or a failure of
\* the decoding step it returns []; on success it returns the decoder's
\* records as they are.
C3_FetchFailsSoft ==
    /\ probe.pc \in {"off", "start", "awaitFetch", "awaitText", "returned"}
    /\ probe.pc \in {"awaitFetch", "awaitText"} =>
          probe.url \notin {"", undefined} /\ probe.requests = 1
    /\ probe.pc = "returned" =>
          IF probe.url \in {"", undefined}
          THEN probe.result = <<>> /\ probe.requests = 0
          ELSE /\ probe.requests = 1
               /\ probe.result =
                     IF /\ probe.response = "ok"
                        /\ probe.text.text = "ok"
                        /\ probe.text.parse = "ok"
                     THEN probe.text.data
                     ELSE <<>>

\* The response was fine and the decoder threw: the call returned [].
C3_Witness ==
    /\ probe.pc = "returned"
    /\ probe.url = googleSheetUrls[probe.sheet]
    /\ probe.response = "ok"
    /\ probe.text.parse = "throw"
    /\ probe.result = <<>>

----------------------------------------------------------------------------
Invoked(t) ==
    {r \in {"populateBooks", "populateTalks", "populateNews"} : trace[t][r] # "none"}

\* C4: no renderer is invoked before the three getOrFetchData calls have all
\* settled, and once they have, all three are invoked with the language read
\* from storage, 'en' when there is none.
C4_RenderAfterAllSettled ==
    \A t \in Tabs :
       /\ Invoked(t) # {} => \A s \in Sheets : ops[t][s].pc = "fulfilled"
       /\ (\A s \in Sheets : ops[t][s].pc = "fulfilled") =>
             /\ Invoked(t) = {"populateBooks", "populateTalks", "populateNews"}
             /\ \A r \in Invoked(t) :
                   trace[t][r] = IF localStorage["language"] = NoItem THEN "en"
                                 ELSE localStorage["language"].text
             /\ fetchedBooksData[t] = ops[t]["books"].result
             /\ fetchedTalksData[t] = ops[t]["talks"].result
             /\ fetchedNewsData[t] = ops[t]["news"].result

\* The page rendered after one fetch had failed and the other two had not.
C4_Witness ==
    /\ pagePc["tabA"] = "done"
    /\ ops["tabA"]["talks"] = [pc |-> "fulfilled", result |-> <<>>, requests |-> 1]
    /\ ops["tabA"]["books"].result # <<>>
    /\ ops["tabA"]["news"].result # <<>>
    /\ trace["tabA"].populateNews = "es"

----------------------------------------------------------------------------
\* C6: a stored entry that cannot be decoded is a cache miss: the call does
\* not raise and page initialization is not stopped by it.
C6_MalformedEntryIsAMiss ==
    \A t \in Tabs :
       /\ pagePc[t] # "rejected"
       /\ \A s \in Sheets : ops[t][s].pc # "rejected"

----------------------------------------------------------------------------
\* C9: the stored entry of a key is absent or holds the empty sequence or
\* the whole record sequence of one fetch, and a change of the entry is the
\* save of the run that returns in that step (the last writer's).
WholeSnapshot(s) ==
    \/ localStorage[cacheKey(s)] = NoItem
    \/ /\ HasEntry(s)
       /\ \/ Entry(s).data = <<>>
          \/ \E v \in SheetVersions : Entry(s).data = SheetRows(s, v)

C9_WholeSnapshotLastWriter ==
    /\ [](\A s \in Sheets : WholeSnapshot(s))
    /\ [][\A s \in Sheets :
             localStorage'[cacheKey(s)] # localStorage[cacheKey(s)] =>
                \E t \in Tabs :
                   /\ Returns(t, s)
                   /\ localStorage'[cacheKey(s)] =
                          JSONstringify([timestamp |-> now,
                                         data |-> ops'[t][s].result])]_vars

\* Two tabs fetched the same sheet at once and got different versions of it;
\* the store holds one of the two.
C9_Witness ==
    \E s \in Sheets, t \in Tabs, u \in Tabs :
       /\ t # u
       /\ ops[t][s].pc = "fulfilled" /\ ops[t][s].requests = 1
       /\ ops[u][s].pc = "fulfilled" /\ ops[u][s].requests = 1
       /\ ops[t][s].result # <<>>
       /\ ops[u][s].result # <<>>
       /\ ops[t][s].result # ops[u][s].result
       /\ HasEntry(s)
       /\ Entry(s).data = ops[u][s].result

----------------------------------------------------------------------------
\* What a list container holds when it shows data in language lang: all of
\* it, or its first three items.
ExpectedList(markup, data, lang, showAll) ==
    LET k == IF showAll THEN Len(data) ELSE Min(3, Len(data))
    IN  [i \in 1..k |-> markup[<<data[i], lang>>]]

\* What the grid of category key holds when it shows data in language lang.
ExpectedGrid(key, data, lang) ==
    LET mine == SelectSeq(data, LAMBDA b : bookCategoryKey[b] = key)
    IN  [i \in 1..Len(mine) |-> bookMarkup[<<mine[i], lang>>]]

\* C5: with n >= 1 records the talks list and the news list hold min(3, n)
\* items after the renderer ran and after a collapse click, and n items after
\* a show-all click: the first items of the data, in order.
C5_ListShowsThreeOrAll ==
    \A t \in Tabs :
       /\ (/\ trace[t].populateTalks # "none"
           /\ Len(fetchedTalksData[t]) >= 1
           /\ dom[t].talks.present) =>
             \E lang \in Langs :
                dom[t].talks.innerHTML =
                    ExpectedList(talkMarkup, fetchedTalksData[t], lang,
                                 trace[t].talksLast = "showAll")
       /\ (/\ trace[t].populateNews # "none"
           /\ Len(fetchedNewsData[t]) >= 1
           /\ dom[t].news.present) =>
             \E lang \in Langs :
                dom[t].news.innerHTML =
                    ExpectedList(newsMarkup, fetchedNewsData[t], lang,
                                 trace[t].newsLast = "showAll")

\* Four talks and four posts: the talks were expanded and collapsed again to
\* three, the posts are expanded to four after the renderer ran twice.
C5_Witness ==
    /\ Len(fetchedTalksData["tabA"]) = 4
    /\ trace["tabA"].talksLast = "collapse"
    /\ Len(dom["tabA"].talks.innerHTML) = 3
    /\ dom["tabA"].collapseAllTalks.disabled
    /\ Len(fetchedNewsData["tabA"]) = 4
    /\ trace["tabA"].newsLast = "showAll"
    /\ Len(dom["tabA"].news.innerHTML) = 4
    /\ Len(dom["tabA"].showAllNews.listeners) = 2

----------------------------------------------------------------------------
\* The values a rendered item takes from the sheet.
SlotValues(item) ==
    IF item.tag = "book-item" THEN {item[f] : f \in DOMAIN item \ {"tag"}}
    ELSE IF item.tag = "news-item" THEN {item[f] : f \in DOMAIN item \ {"tag", "a"}}
    ELSE IF item.tag = "talk-video"
    THEN {item.iframeSrc, item.iframeTitle} \cup {item.text[f] : f \in DOMAIN item.text}
    ELSE IF item.tag = "talk-text" THEN {item.text[f] : f \in DOMAIN item.text}
    ELSE {}

Items(seq) == {seq[i] : i \in 1..Len(seq)}

RenderedItems(t) ==
    UNION ({Items(dom[t].books[k].innerHTML) : k \in CategoryKeys}
           \cup {Items(dom[t].talks.innerHTML), Items(dom[t].news.innerHTML)})

\* A text in which none of < > " ' is left; escapeHTML leaves none.
IsEscaped(str) == \A i \in 1..Len(str) : CharAt(str, i) \notin {"<", ">", "\"", "'"}

\* C7: every sheet value in the markup of a container went through
\* escapeHTML on its way there.
C7_EveryFieldEscaped ==
    \A t \in Tabs : \A item \in RenderedItems(t) :
       \A v \in SlotValues(item) : IsEscaped(v)

----------------------------------------------------------------------------
\* The containers of tab t show what its renderers last rendered, for the
\* renderers whose data has at least atLeast records.
RebuiltFromInputs(t, atLeast) ==
    /\ (trace[t].populateBooks # "none" /\ Len(fetchedBooksData[t]) >= atLeast) =>
          \A k \in CategoryKeys :
             dom[t].books[k].present =>
                dom[t].books[k].innerHTML =
                    ExpectedGrid(k, fetchedBooksData[t], trace[t].populateBooks)
    /\ (/\ trace[t].populateTalks # "none"
        /\ trace[t].talksLast = "populate"
        /\ Len(fetchedTalksData[t]) >= atLeast
        /\ dom[t].talks.present) =>
          dom[t].talks.innerHTML =
              ExpectedList(talkMarkup, fetchedTalksData[t],
                           trace[t].populateTalks, FALSE)
    /\ (/\ trace[t].populateNews # "none"
        /\ trace[t].newsLast = "populate"
        /\ Len(fetchedNewsData[t]) >= atLeast
        /\ dom[t].news.present) =>
          dom[t].news.innerHTML =
              ExpectedList(newsMarkup, fetchedNewsData[t],
                           trace[t].populateNews, FALSE)

\* C8 as stated: after an invocation of a renderer its containers hold what
\* the record sequence and the language determine, whatever they held before.
C8_RebuiltFromInputsAlone == \A t \in Tabs : RebuiltFromInputs(t, 0)

\* C8 as amended: ... for a record sequence that is not empty.
C8_RebuiltWhenNotEmpty == \A t \in Tabs : RebuiltFromInputs(t, 1)

\* The talks were expanded over the page's own markup, then the renderer was
\* called again in the other language: three talks, in that language.
C8_Witness ==
    /\ hostPage.talks.innerHTML # <<>>
    /\ Len(fetchedTalksData["tabA"]) = 4
    /\ trace["tabA"].calls >= 1
    /\ trace["tabA"].talksLast = "populate"
    /\ trace["tabA"].populateTalks = "es"
    /\ dom["tabA"].showAllTalks.listeners = <<Listener("talks", "en", TRUE)>>
    /\ Len(dom["tabA"].talks.innerHTML) = 3

----------------------------------------------------------------------------
\* C10: after a show-all or collapse click the list is rendered in the
\* language of the most recent invocation of its renderer.
C10_ClickKeepsLatestLanguage ==
    \A t \in Tabs :
       /\ (/\ trace[t].populateTalks # "none"
           /\ trace[t].talksLast \in {"showAll", "collapse"}
           /\ Len(fetchedTalksData[t]) >= 1
           /\ dom[t].talks.present) =>
             dom[t].talks.innerHTML =
                 ExpectedList(talkMarkup, fetchedTalksData[t],
                              trace[t].populateTalks,
                              trace[t].talksLast = "showAll")
       /\ (/\ trace[t].populateNews # "none"
           /\ trace[t].newsLast \in {"showAll", "collapse"}
           /\ Len(fetchedNewsData[t]) >= 1
           /\ dom[t].news.present) =>
             dom[t].news.innerHTML =
                 ExpectedList(newsMarkup, fetchedNewsData[t],
                              trace[t].populateNews,
                              trace[t].newsLast = "showAll")

====
